---- MODULE Spec2Model ----
(***************************************************************************)
(* The call bridge of rpc-interop-playground: the service host             *)
(* (playground::server::initialize / terminate and the process-wide        *)
(* callback slot), the server routine s_pass_and_get_string, the client    *)
(* gateway (rpc_exception_wrapper, playground::client::connect and         *)
(* pass_and_get_string) and the client export pass_and_get_string.         *)
(* The RPC runtime, the generated stubs and the managed caller are the     *)
(* environment: their results are chosen nondeterministically.            *)
(***************************************************************************)
EXTENDS Integers, Sequences, FiniteSets, TLC

(* ------------------------------ bounds --------------------------------- *)
NClients == 2
MaxCalls == 2
MaxLen == 2

(* ------------------------- program constants --------------------------- *)
ERROR_SUCCESS == 0
RPC_S_OK == 0
ERROR_NOT_ENOUGH_MEMORY == 8
ERROR_INTERNAL_ERROR == 1359
RPC_S_OUT_OF_MEMORY == 14
RPC_S_UNKNOWN_IF == 1717
RPC_S_SERVER_UNAVAILABLE == 1722
RPC_S_CALL_FAILED == 1726
\* 0xC0000005 as a 32-bit two's complement value
STATUS_ACCESS_VIOLATION == -1073741819

Clients == 1..NClients
HeapSize == 2 * NClients
Addr == 1..HeapSize
HandleIds == 1..MaxCalls

Null == 0
NullFn == "nullfn"
None == <<>>
Some(x) == <<x>>
NUL == 0
Garbage == 9

(* ------------------------------ strings -------------------------------- *)
(* the i-th character of the test strings alternates, so that a reordered  *)
(* or truncated copy differs from the original                             *)
StrOfLen(n) == [i \in 1..n |-> IF i % 2 = 1 THEN 1 ELSE 2]
Inputs == {StrOfLen(n) : n \in 0..MaxLen}

(* std::string::c_str(): the characters followed by the terminator *)
c_str(s) == s \o <<NUL>>

(* std::strlen: the number of bytes before the first terminator; on a     *)
(* buffer without terminator the scan runs past its end                    *)
Terminated(buf) == \E i \in 1..Len(buf) : buf[i] = NUL

strlen(buf) ==
  LET nuls == {i \in 1..Len(buf) : buf[i] = NUL}
  IN  IF nuls = {} THEN Len(buf) + 1
      ELSE (CHOOSE i \in nuls : \A j \in nuls : i <= j) - 1

(* std::string from a C string: copies the bytes before the terminator *)
string_from(buf) ==
  IF Terminated(buf) THEN SubSeq(buf, 1, strlen(buf)) ELSE buf \o <<Garbage>>

(* memcpy_s(dest, destsz, src, count): 0 and the copy when the arguments   *)
(* are valid, an error code and no copy otherwise                          *)
memcpy_s_err(destNull, destsz, srcNull, count) ==
  IF destNull \/ srcNull THEN 22
  ELSE IF destsz < count THEN 34
  ELSE 0

(* variant: the last byte is not copied *)
memcpy_bytes_OffByOne(src, count) ==
  [i \in 1..count |-> IF i < count /\ i <= Len(src) THEN src[i] ELSE Garbage]

memcpy_bytes(src, count) ==
  [i \in 1..count |-> IF i <= Len(src) THEN src[i] ELSE Garbage]

(* ----------------------------- callbacks ------------------------------- *)
(* test doubles for the managed callbacks: f prefixes its argument, g      *)
(* drops the first character and returns null for the empty string; a      *)
(* result is None for a null string and Some(s) for the string s           *)
CallbackF(s) == Some(<<1>> \o s)
CallbackG(s) == IF s = <<>> THEN None ELSE Some(Tail(s))

CallbackResult(fn, s) == IF fn = "f" THEN CallbackF(s) ELSE CallbackG(s)

(* playground::callbacks values passed to initialize; the last one is the  *)
(* default-constructed struct                                              *)
EmptyCallbacks == [pass_and_get_string |-> NullFn, pass_and_get_string_out |-> NullFn]
CallbackSets ==
  { [pass_and_get_string |-> "f", pass_and_get_string_out |-> "f_out"],
    [pass_and_get_string |-> "g", pass_and_get_string_out |-> "g_out"],
    EmptyCallbacks }

(* ------------------------------- heap ---------------------------------- *)
FreeCell == [dom |-> "free", data |-> <<>>]

(* malloc / CoTaskMemAlloc: the lowest free address, Null when none *)
AllocAddr(h) ==
  LET free == {a \in Addr : h[a].dom = "free"}
  IN  IF free = {} THEN Null
      ELSE CHOOSE a \in free : \A b \in free : a <= b

(* variant: the allocator hands out one static buffer *)
MIDL_user_allocate_Static(h, size, ok) ==
  [addr |-> 1,
   heap |-> [h EXCEPT ![1] = [dom |-> "transport",
                             data |-> [i \in 1..size |-> Garbage]]]]

(* MIDL_user_allocate(size): std::malloc(size), contents indeterminate;   *)
(* ok = FALSE is the allocator running out of memory                       *)
MIDL_user_allocate(h, size, ok) ==
  LET a == IF ok THEN AllocAddr(h) ELSE Null
  IN  [addr |-> a,
       heap |-> IF a = Null THEN h
                ELSE [h EXCEPT ![a] = [dom |-> "transport",
                                      data |-> [i \in 1..size |-> Garbage]]]]

(* CoTaskMemAlloc(size) *)
CoTaskMemAlloc(h, size, ok) ==
  LET a == IF ok THEN AllocAddr(h) ELSE Null
  IN  [addr |-> a,
       heap |-> IF a = Null THEN h
                ELSE [h EXCEPT ![a] = [dom |-> "foreign",
                                      data |-> [i \in 1..size |-> Garbage]]]]

(* a free through the free function of domain d: the cell is released when *)
(* it is live in d; free(nullptr) is a no-op                               *)
FreeIn(h, a, d) ==
  IF a = Null THEN h
  ELSE IF h[a].dom = d THEN [h EXCEPT ![a] = FreeCell]
  ELSE h

(* the defect a free through domain d commits, if any *)
FreeDefect(h, a, d) ==
  IF a = Null \/ h[a].dom = d THEN {}
  ELSE IF h[a].dom = "free"
    THEN {IF d = "transport" THEN "double_free_transport" ELSE "double_free_foreign"}
  ELSE {"domain_mismatch"}

(* MIDL_user_free(ptr): std::free(ptr) *)
MIDL_user_free(h, a) == FreeIn(h, a, "transport")

(* CoTaskMemFree(ptr) *)
CoTaskMemFree(h, a) == FreeIn(h, a, "foreign")

(* ------------------------------ state ---------------------------------- *)
VARIABLES
  slot,         \* get_callbacks(): the process-wide callbacks object
  ifRegistered, \* the interface is registered with the RPC runtime
  hpc,          \* position of the hosting thread inside initialize/terminate
  hcb,          \* the callbacks argument of the latest initialize
  hlast,        \* the last completed server_initialize/server_terminate
  hprev,        \* the operation completed before hlast
  hold,         \* the pass_and_get_string entry installed when the latest
                \* server_terminate began
  cl,           \* per client thread: position and locals of its export call
  heap,         \* the process heap, each cell tagged with its allocator
  handles,      \* binding handles by identity
  ncalls,       \* number of export calls started
  tbalance,     \* MIDL_user_allocate calls that returned a buffer minus
                \* MIDL_user_free calls with a non-null argument
  errs,         \* memory and handle defects committed so far
  crashed       \* the process died on an unhandled fault

vars == <<slot, ifRegistered, hpc, hcb, hlast, hprev, hold, cl, heap, handles,
          ncalls, tbalance, errs, crashed>>

hostVars == <<slot, ifRegistered, hpc, hcb, hlast, hprev, hold>>

IdleCall ==
  [pc |-> "idle", str |-> <<>>, handle |-> Null, s_str |-> <<>>, fn |-> NullFn,
   cbCount |-> 0, cbArg |-> <<>>, str_local |-> Null, buffer_size |-> 0,
   s_out_str |-> Null, s_status |-> 0, out_str |-> Null, status |-> 0,
   ret |-> Null, injected |-> FALSE, sentUnreg |-> FALSE,
   sentAfterTerm |-> FALSE, attempts |-> 0, made |-> Null, fault |-> 0,
   cperr |-> 0, exp |-> "ret", prior |-> Null, composed |-> FALSE,
   sfrees |-> 0]

NoOp == [op |-> "none", ok |-> TRUE]

Init ==
  /\ slot = EmptyCallbacks
  /\ ifRegistered = FALSE
  /\ hpc = "idle"
  /\ hcb = EmptyCallbacks
  /\ hlast = NoOp
  /\ hprev = "none"
  /\ hold = NullFn
  /\ cl = [c \in Clients |-> IdleCall]
  /\ heap = [a \in Addr |-> FreeCell]
  /\ handles = [h \in HandleIds |-> "unborn"]
  /\ ncalls = 0
  /\ tbalance = 0
  /\ errs = {}
  /\ crashed = FALSE

(* --------------------------- service host ------------------------------ *)
(* statuses an RPC runtime call can return to the bridge *)
ApiStatuses == {RPC_S_OK, RPC_S_OUT_OF_MEMORY}

(* variant: the export has no try block *)
server_export_NoCatch(thrown) == [ret |-> TRUE, escaped |-> thrown]

(* the try/catch of server_initialize and server_terminate: true when the  *)
(* inner call returned, false when it threw; std::system_error is a        *)
(* std::exception, so nothing escapes the handler                          *)
server_export(thrown) == [ret |-> ~thrown, escaped |-> FALSE]

(* server_initialize / server_terminate return to the hosting runtime; an  *)
(* exception that escaped into the foreign caller ends the process         *)
HostReturn(op, thrown) ==
  LET r == server_export(thrown)
  IN  /\ hpc' = "idle"
      /\ hlast' = [op |-> op, ok |-> r.ret]
      /\ hprev' = hlast.op
      /\ crashed' = (crashed \/ r.escaped)

(* variant: an entry that is already installed is kept *)
AssignFirst_KeepInstalled(s, cb) ==
  IF s.pass_and_get_string = NullFn
    THEN [s EXCEPT !.pass_and_get_string = cb.pass_and_get_string]
    ELSE s

(* variant: the second entry, once installed, is kept *)
AssignSecond_KeepInstalled(s, cb) ==
  IF s.pass_and_get_string_out = NullFn
    THEN [s EXCEPT !.pass_and_get_string_out = cb.pass_and_get_string_out]
    ELSE s

(* get_callbacks() = callbacks, member by member *)
AssignFirst(s, cb) == [s EXCEPT !.pass_and_get_string = cb.pass_and_get_string]
AssignSecond(s, cb) == [s EXCEPT !.pass_and_get_string_out = cb.pass_and_get_string_out]

(* RpcServerUnregisterIf: RPC_S_OK for a registered interface *)
RpcServerUnregisterIf(registered) ==
  IF registered THEN RPC_S_OK ELSE RPC_S_UNKNOWN_IF

(* variant: the callbacks are stored on entry, before the endpoint and the *)
(* interface are set up                                                    *)
ServerInitialize_InstallOnEntry(cbs, st) ==
  /\ ~crashed
  /\ hpc = "idle"
  /\ hcb' = cbs
  /\ slot' = cbs
  /\ IF st # RPC_S_OK
       THEN HostReturn("initialize", TRUE)
       ELSE /\ hpc' = "init_register"
            /\ UNCHANGED <<hlast, hprev, crashed>>
  /\ UNCHANGED <<ifRegistered, hold, cl, heap, handles, ncalls, tbalance, errs>>

(* server_initialize(callbacks) up to the result of RpcServerUseProtseqEpA *)
ServerInitialize(cbs, st) ==
  /\ ~crashed
  /\ hpc = "idle"
  /\ hcb' = cbs
  /\ IF st # RPC_S_OK
       THEN HostReturn("initialize", TRUE)
       ELSE /\ hpc' = "init_register"
            /\ UNCHANGED <<hlast, hprev, crashed>>
  /\ UNCHANGED <<slot, ifRegistered, hold, cl, heap, handles, ncalls, tbalance, errs>>

(* variant: the callbacks are installed before the result of the           *)
(* registration is known                                                   *)
InitRegisterIf_InstallFirst(st) ==
  /\ ~crashed
  /\ hpc = "init_register"
  /\ slot' = hcb
  /\ IF st # RPC_S_OK
       THEN /\ HostReturn("initialize", TRUE)
            /\ UNCHANGED ifRegistered
       ELSE /\ hpc' = "init_install"
            /\ ifRegistered' = TRUE
            /\ UNCHANGED <<hlast, hprev, crashed>>
  /\ UNCHANGED <<hcb, hold, cl, heap, handles, ncalls, tbalance, errs>>

(* RpcServerRegisterIf3 with RPC_IF_AUTOLISTEN *)
InitRegisterIf(st) ==
  /\ ~crashed
  /\ hpc = "init_register"
  /\ IF st # RPC_S_OK
       THEN /\ HostReturn("initialize", TRUE)
            /\ UNCHANGED ifRegistered
       ELSE /\ hpc' = "init_install"
            /\ ifRegistered' = TRUE
            /\ UNCHANGED <<hlast, hprev, crashed>>
  /\ UNCHANGED <<slot, hcb, hold, cl, heap, handles, ncalls, tbalance, errs>>

(* get_callbacks() = callbacks: first member *)
InitInstall ==
  /\ ~crashed
  /\ hpc = "init_install"
  /\ slot' = AssignFirst(slot, hcb)
  /\ hpc' = "init_install2"
  /\ UNCHANGED <<ifRegistered, hcb, hlast, hprev, hold, cl, heap, handles,
                 ncalls, tbalance, errs, crashed>>

(* variant: initialize listens itself and returns when the interface has   *)
(* been unregistered                                                       *)
InitInstall2_WaitsForShutdown ==
  /\ ~crashed
  /\ hpc = "init_install2"
  /\ ~ifRegistered
  /\ slot' = AssignSecond(slot, hcb)
  /\ HostReturn("initialize", FALSE)
  /\ UNCHANGED <<ifRegistered, hcb, hold, cl, heap, handles, ncalls, tbalance, errs>>

(* get_callbacks() = callbacks: second member, then return true *)
InitInstall2 ==
  /\ ~crashed
  /\ hpc = "init_install2"
  /\ slot' = AssignSecond(slot, hcb)
  /\ HostReturn("initialize", FALSE)
  /\ UNCHANGED <<ifRegistered, hcb, hold, cl, heap, handles, ncalls, tbalance, errs>>

(* server_terminate(): get_callbacks() = {}, first member *)
ServerTerminate ==
  /\ ~crashed
  /\ hpc = "idle"
  /\ slot' = AssignFirst(slot, EmptyCallbacks)
  /\ hpc' = "term_clear2"
  /\ hold' = slot.pass_and_get_string
  /\ UNCHANGED <<ifRegistered, hcb, hlast, hprev, cl, heap, handles,
                 ncalls, tbalance, errs, crashed>>

(* get_callbacks() = {}: second member *)
TermClear2 ==
  /\ ~crashed
  /\ hpc = "term_clear2"
  /\ slot' = AssignSecond(slot, EmptyCallbacks)
  /\ hpc' = "term_unregister"
  /\ UNCHANGED <<ifRegistered, hcb, hlast, hprev, hold, cl, heap, handles,
                 ncalls, tbalance, errs, crashed>>

(* variant: terminate returns without unregistering the interface *)
TermUnregister_Skipped ==
  /\ ~crashed
  /\ hpc = "term_unregister"
  /\ HostReturn("terminate", FALSE)
  /\ UNCHANGED <<slot, ifRegistered, hcb, hold, cl, heap, handles, ncalls,
                 tbalance, errs>>

(* RpcServerUnregisterIf(ifspec, nullptr, 0): does not wait for calls *)
TermUnregister ==
  /\ ~crashed
  /\ hpc = "term_unregister"
  /\ ifRegistered' = FALSE
  /\ HostReturn("terminate", RpcServerUnregisterIf(ifRegistered) # RPC_S_OK)
  /\ UNCHANGED <<slot, hcb, hold, cl, heap, handles, ncalls, tbalance, errs>>

(* ------------------------- memory bookkeeping -------------------------- *)
Mem == [heap |-> heap, bal |-> tbalance, errs |-> errs]

SetMem(m) ==
  /\ heap' = m.heap
  /\ tbalance' = m.bal
  /\ errs' = m.errs

TAlloc(m, size, ok) ==
  LET r == MIDL_user_allocate(m.heap, size, ok)
  IN  [addr |-> r.addr,
       mem |-> [heap |-> r.heap,
                bal |-> IF r.addr = Null THEN m.bal ELSE m.bal + 1,
                errs |-> m.errs]]

TFree(m, a) ==
  [heap |-> MIDL_user_free(m.heap, a),
   bal |-> IF a = Null THEN m.bal ELSE m.bal - 1,
   errs |-> m.errs \cup FreeDefect(m.heap, a, "transport")]

FAlloc(m, size, ok) ==
  LET r == CoTaskMemAlloc(m.heap, size, ok)
  IN  [addr |-> r.addr, mem |-> [m EXCEPT !.heap = r.heap]]

FFree(m, a) ==
  [m EXCEPT !.heap = CoTaskMemFree(m.heap, a),
            !.errs = @ \cup FreeDefect(m.heap, a, "foreign")]

(* writes bytes into a cell *)
Store(m, a, bytes) == [m EXCEPT !.heap = [@ EXCEPT ![a].data = bytes]]

(* ---------------------------- binding handles -------------------------- *)
(* variant: a handle that is still open is handed out again *)
NewHandle_Pooled(hs) ==
  LET live == {h \in HandleIds : hs[h] = "live"}
      unborn == {h \in HandleIds : hs[h] = "unborn"}
  IN  IF live # {} THEN CHOOSE h \in live : \A k \in live : h <= k
      ELSE CHOOSE h \in unborn : \A k \in unborn : h <= k

(* the handle RpcBindingFromStringBindingA creates: one that did not exist *)
NewHandle(hs) ==
  LET unborn == {h \in HandleIds : hs[h] = "unborn"}
  IN  CHOOSE h \in unborn : \A k \in unborn : h <= k

(* RpcBindingFree(&handle) *)
RpcBindingFree(hs, h) ==
  IF h = Null THEN hs
  ELSE IF hs[h] = "live" THEN [hs EXCEPT ![h] = "freed"]
  ELSE hs

ReleaseDefect(hs, h) ==
  IF h = Null \/ hs[h] = "live" THEN {} ELSE {"handle_double_release"}

UseDefect(hs, h) ==
  IF h # Null /\ hs[h] = "live" THEN {} ELSE {"handle_use_after_release"}

(* variant: the string binding is freed on the normal return only *)
DeferStringFree_HappyPathOnly(n, thrown) == IF thrown THEN n ELSE n + 1

(* defer(std::ignore = RpcStringFreeA(&string_binding)) of connect: n is   *)
(* the number of times the string binding has been freed; runs when        *)
(* connect is left, by return (thrown = FALSE) or by exception             *)
DeferStringFree(n, thrown) == n + 1

(* variant: connect first asks whether the server is listening *)
connect_ProbesServer(hs, st1, st2) ==
  IF ~ifRegistered \/ st1 # RPC_S_OK \/ st2 # RPC_S_OK
    THEN [thrown |-> TRUE, handle |-> Null, handles |-> hs,
          composed |-> st1 = RPC_S_OK,
          sfrees |-> IF st1 = RPC_S_OK THEN 1 ELSE 0]
    ELSE LET h == NewHandle(hs)
         IN  [thrown |-> FALSE, handle |-> h,
              handles |-> [hs EXCEPT ![h] = "live"],
              composed |-> TRUE, sfrees |-> 1]

(* variant: connect keeps the first handle it created and returns it again *)
connect_Cached(hs, st1, st2) ==
  IF st1 # RPC_S_OK \/ st2 # RPC_S_OK
    THEN [thrown |-> TRUE, handle |-> Null, handles |-> hs,
          composed |-> st1 = RPC_S_OK,
          sfrees |-> IF st1 = RPC_S_OK THEN 1 ELSE 0]
    ELSE IF hs[1] # "unborn"
      THEN [thrown |-> FALSE, handle |-> 1, handles |-> hs,
            composed |-> TRUE, sfrees |-> 1]
      ELSE [thrown |-> FALSE, handle |-> 1, handles |-> [hs EXCEPT ![1] = "live"],
            composed |-> TRUE, sfrees |-> 1]

(* client::connect(): throws when RpcStringBindingComposeA (st1) fails;    *)
(* otherwise registers the deferred free of the composed string binding,   *)
(* throws when RpcBindingFromStringBindingA (st2) fails and returns the    *)
(* new handle otherwise. composed: a string binding was composed; sfrees:  *)
(* the number of times it was freed                                        *)
connect(hs, st1, st2) ==
  IF st1 # RPC_S_OK
    THEN [thrown |-> TRUE, handle |-> Null, handles |-> hs,
          composed |-> FALSE, sfrees |-> 0]
  ELSE IF st2 # RPC_S_OK
    THEN [thrown |-> TRUE, handle |-> Null, handles |-> hs,
          composed |-> TRUE, sfrees |-> DeferStringFree(0, TRUE)]
    ELSE LET h == NewHandle(hs)
         IN  [thrown |-> FALSE, handle |-> h,
              handles |-> [hs EXCEPT ![h] = "live"],
              composed |-> TRUE, sfrees |-> DeferStringFree(0, FALSE)]

(* variant: the guard acts as a failure guard, it runs when the scope is   *)
(* left by an exception only                                               *)
DeferBindingFree_OnThrowOnly(hs, h, thrown) ==
  IF thrown THEN RpcBindingFree(hs, h) ELSE hs

(* variant: the handle is released on the normal return only *)
DeferBindingFree_HappyPathOnly(hs, h, thrown) ==
  IF thrown THEN hs ELSE RpcBindingFree(hs, h)

(* defer(std::ignore = RpcBindingFree(&handle)) of the export: runs when   *)
(* the try block is left, by return (thrown = FALSE) or by exception       *)
DeferBindingFree(hs, h, thrown) == RpcBindingFree(hs, h)

(* variant: the output buffer is freed on the normal return only *)
DeferUserFree_HappyPathOnly(m, a, thrown) ==
  IF thrown THEN m ELSE TFree(m, a)

(* defer(MIDL_user_free(out_str)) of client::pass_and_get_string *)
DeferUserFree(m, a, thrown) == TFree(m, a)

(* variant: the callback result is never freed *)
DeferCoTaskMemFree_Skipped(m, a) == m

(* defer(CoTaskMemFree(str_local)) of s_pass_and_get_string *)
DeferCoTaskMemFree(m, a) == FFree(m, a)

(* --------------------------- fault translation ------------------------- *)
(* RpcExceptionFilter: TRUE when the exception is to be handled *)
RpcExceptionFilter(code) == code # STATUS_ACCESS_VIOLATION

(* variant: the handler reports every exception as one generic code *)
rpc_exception_wrapper_GenericCode(raised, code, value) ==
  IF raised THEN RPC_S_CALL_FAILED ELSE value

(* variant: the status of the call is reduced to failed or not *)
rpc_exception_wrapper_Boolean(raised, code, value) ==
  IF raised THEN code ELSE IF value = ERROR_SUCCESS THEN ERROR_SUCCESS ELSE 1

(* variant: the handler returns the status variable it never assigned *)
rpc_exception_wrapper_Swallow(raised, code, value) == value

(* rpc_exception_wrapper: the status of the wrapped call, or the exception *)
(* code when the call raised an exception                                  *)
rpc_exception_wrapper(raised, code, value) ==
  IF raised THEN code ELSE value

(* the exception the transport raises for a call to an interface that is   *)
(* not registered                                                          *)
TransportFault == RPC_S_SERVER_UNAVAILABLE

(* ----------------------------- client call ----------------------------- *)
(* variant: a failed call is sent once more *)
AfterWrapper_RetryOnFailure(status, attempts) ==
  IF status # ERROR_SUCCESS /\ attempts < 2 THEN "invoke" ELSE "check"

(* client::pass_and_get_string once rpc_exception_wrapper has returned:    *)
(* the status test follows, whatever the status and the number of calls    *)
(* made                                                                    *)
AfterWrapper(status, attempts) == "check"

Me(c) == cl[c]
SetCall(c, r) == cl' = [cl EXCEPT ![c] = r]

(* variant: the catch block of either export hands back nullptr *)
Caught_ClearsOutput(me) == [me EXCEPT !.pc = "returned", !.ret = Null, !.handle = Null]

(* the catch block of an export: the exception is logged; pass_and_get_string *)
(* returns nullptr, pass_and_get_string_out returns without a write        *)
Caught(me) ==
  [me EXCEPT !.pc = "returned", !.handle = Null,
             !.ret = IF me.exp = "ret" THEN Null ELSE @]

(* the str argument of the export: a C string, or a null pointer (a null   *)
(* managed string is marshalled as nullptr)                                *)
Args == {None} \cup {Some(s) : s \in Inputs}

(* export pass_and_get_string(str): connect(), the registration of the     *)
(* deferred RpcBindingFree and the conversion of str to the std::string    *)
(* parameter of client::pass_and_get_string; the conversion of a null str  *)
(* is undefined: std::strlen reads address 0 and the access violation is   *)
(* not a std::exception, so it leaves the export. The caller threads are   *)
(* interchangeable, so the call is taken by the lowest-numbered thread     *)
(* that is not in a call                                                   *)
ExportCall(c, arg, st1, st2) ==
  /\ ~crashed
  /\ Me(c).pc = "idle"
  /\ \A d \in Clients : d < c => cl[d].pc # "idle"
  /\ ncalls < MaxCalls
  /\ ncalls' = ncalls + 1
  /\ LET r == connect(handles, st1, st2)
         me == [IdleCall EXCEPT !.str = IF arg = None THEN <<>> ELSE c_str(arg[1]),
                                !.composed = r.composed, !.sfrees = r.sfrees]
     IN  /\ handles' = r.handles
         /\ IF r.thrown
              THEN /\ SetCall(c, [Caught(me) EXCEPT
                        !.injected = (st1 # RPC_S_OK \/ st2 # RPC_S_OK)])
                   /\ UNCHANGED crashed
              ELSE IF arg = None
                THEN /\ SetCall(c, [me EXCEPT !.pc = "escaped", !.handle = r.handle,
                                               !.made = r.handle])
                     /\ crashed' = TRUE
                ELSE /\ SetCall(c, [me EXCEPT !.pc = "invoke", !.handle = r.handle,
                                               !.made = r.handle])
                     /\ UNCHANGED crashed
  /\ UNCHANGED <<hostVars, heap, tbalance, errs>>

(* what the caller's variable holds when it passes its address as out_str: *)
(* null, or a value from before the call                                   *)
Stale == 0 - 1
OutCells == {Null, Stale}

(* the out_str argument of pass_and_get_string_out: a null pointer, or the *)
(* address of a variable of the caller                                     *)
OutArgs == {None} \cup {Some(v) : v \in OutCells}

(* export pass_and_get_string_out(str, out_str): the test of out_str, then *)
(* connect(), the registration of the deferred RpcBindingFree and the      *)
(* conversion of str, as in pass_and_get_string; ret stands for the        *)
(* caller's variable behind out_str                                        *)
ExportCallOut(c, arg, outp, st1, st2) ==
  /\ ~crashed
  /\ Me(c).pc = "idle"
  /\ \A d \in Clients : d < c => cl[d].pc # "idle"
  /\ ncalls < MaxCalls
  /\ ncalls' = ncalls + 1
  /\ IF outp = None
       THEN /\ SetCall(c, Caught([IdleCall EXCEPT
                             !.str = IF arg = None THEN <<>> ELSE c_str(arg[1]),
                             !.exp = "out_null"]))
            /\ UNCHANGED <<handles, crashed>>
       ELSE LET r == connect(handles, st1, st2)
                me == [IdleCall EXCEPT
                         !.str = IF arg = None THEN <<>> ELSE c_str(arg[1]),
                         !.exp = "out", !.ret = outp[1], !.prior = outp[1],
                         !.composed = r.composed, !.sfrees = r.sfrees]
            IN  /\ handles' = r.handles
                /\ IF r.thrown
                     THEN /\ SetCall(c, [Caught(me) EXCEPT
                               !.injected = (st1 # RPC_S_OK \/ st2 # RPC_S_OK)])
                          /\ UNCHANGED crashed
                     ELSE IF arg = None
                       THEN /\ SetCall(c, [me EXCEPT !.pc = "escaped",
                                             !.handle = r.handle, !.made = r.handle])
                            /\ crashed' = TRUE
                       ELSE /\ SetCall(c, [me EXCEPT !.pc = "invoke",
                                             !.handle = r.handle, !.made = r.handle])
                            /\ UNCHANGED crashed
  /\ UNCHANGED <<hostVars, heap, tbalance, errs>>

(* client::pass_and_get_string: rpc_exception_wrapper(c_pass_and_get_string,*)
(* handle, str.c_str(), &out_str) hands the request to the transport       *)
Invoke(c) ==
  /\ ~crashed
  /\ Me(c).pc = "invoke"
  /\ errs' = errs \cup UseDefect(handles, Me(c).handle)
  /\ LET me == [Me(c) EXCEPT
                  !.attempts = @ + 1,
                  !.sentUnreg = ~ifRegistered,
                  !.sentAfterTerm = hpc = "idle" /\ hlast.op = "terminate"]
     IN  IF ifRegistered
           THEN /\ SetCall(c, [me EXCEPT !.pc = "dispatch",
                                         !.s_str = c_str(string_from(me.str)),
                                         !.s_out_str = Null])
                /\ UNCHANGED crashed
           ELSE /\ SetCall(c, [me EXCEPT
                     !.pc = AfterWrapper(
                              rpc_exception_wrapper(TRUE, TransportFault, ERROR_SUCCESS),
                              me.attempts),
                     !.out_str = Null,
                     !.fault = TransportFault,
                     !.status = rpc_exception_wrapper(TRUE, TransportFault, ERROR_SUCCESS)])
                /\ crashed' = ~RpcExceptionFilter(TransportFault)
  /\ UNCHANGED <<hostVars, heap, handles, ncalls, tbalance>>

(* s_pass_and_get_string: get_callbacks().pass_and_get_string(str); a call *)
(* through a null entry is undefined: the process dies or the runtime      *)
(* reports a failed call to the client                                     *)
Dispatch(c) ==
  /\ ~crashed
  /\ Me(c).pc = "dispatch"
  /\ LET fn == slot.pass_and_get_string
     IN  IF fn # NullFn
           THEN /\ SetCall(c, [Me(c) EXCEPT !.pc = "callback", !.fn = fn,
                                            !.cbCount = @ + 1,
                                            !.cbArg = Me(c).s_str])
                /\ UNCHANGED crashed
           ELSE \E outcome \in {"crash", "fault"} :
                  IF outcome = "crash"
                    THEN /\ crashed' = TRUE
                         /\ UNCHANGED cl
                    ELSE /\ SetCall(c, [Me(c) EXCEPT
                              !.pc = AfterWrapper(
                                       rpc_exception_wrapper(TRUE, RPC_S_CALL_FAILED, ERROR_SUCCESS),
                                       Me(c).attempts),
                              !.out_str = Null,
                              !.fault = RPC_S_CALL_FAILED,
                              !.status = rpc_exception_wrapper(TRUE, RPC_S_CALL_FAILED, ERROR_SUCCESS)])
                         /\ crashed' = ~RpcExceptionFilter(RPC_S_CALL_FAILED)
  /\ UNCHANGED <<hostVars, heap, handles, ncalls, tbalance, errs>>

(* the callback returns: null, or a string the managed marshaller placed   *)
(* in COM task memory                                                      *)
CallbackReturn(c) ==
  /\ ~crashed
  /\ Me(c).pc = "callback"
  /\ LET r == CallbackResult(Me(c).fn, string_from(Me(c).cbArg))
     IN  IF r = None
           THEN /\ SetCall(c, [Me(c) EXCEPT !.pc = "convert", !.str_local = Null])
                /\ UNCHANGED <<heap, tbalance, errs>>
           ELSE LET a == FAlloc(Mem, Len(r[1]) + 1, TRUE)
                IN  /\ SetMem(Store(a.mem, a.addr, c_str(r[1])))
                    /\ SetCall(c, [Me(c) EXCEPT !.pc = "convert", !.str_local = a.addr])
  /\ UNCHANGED <<hostVars, handles, ncalls, crashed>>

(* variant: no room for the terminator *)
BufferSize_NoTerminator(data) == strlen(data)

(* buffer_size of s_pass_and_get_string: std::strlen(str_local) + 1 *)
BufferSize(data) == strlen(data) + 1

(* variant: the null test is inverted *)
AllocFailed_Inverted(p) == p # Null

(* the null test of the MIDL_user_allocate result in s_pass_and_get_string *)
AllocFailed(p) == p = Null

(* s_pass_and_get_string from the null test of str_local to the test of    *)
(* the MIDL_user_allocate result                                           *)
Convert(c, ok) ==
  /\ ~crashed
  /\ Me(c).pc = "convert"
  /\ IF Me(c).str_local = Null
       THEN /\ ok
            /\ SetCall(c, [Me(c) EXCEPT !.pc = "reply", !.s_status = ERROR_SUCCESS])
            /\ UNCHANGED <<heap, tbalance, errs>>
       ELSE LET size == BufferSize(heap[Me(c).str_local].data)
                a == TAlloc(Mem, size, ok)
            IN  IF AllocFailed(a.addr)
                  THEN /\ SetMem(DeferCoTaskMemFree(a.mem, Me(c).str_local))
                       /\ SetCall(c, [Me(c) EXCEPT
                            !.pc = "reply", !.buffer_size = size,
                            !.s_out_str = a.addr, !.str_local = Null,
                            !.s_status = ERROR_NOT_ENOUGH_MEMORY,
                            !.injected = @ \/ ~ok])
                  ELSE /\ SetMem(a.mem)
                       /\ SetCall(c, [Me(c) EXCEPT
                            !.pc = "copy", !.buffer_size = size,
                            !.s_out_str = a.addr])
  /\ UNCHANGED <<hostVars, handles, ncalls, crashed>>

(* variant: the result of memcpy_s is not looked at *)
CopyFailed_Ignored(err) == FALSE

(* the test of the memcpy_s result in s_pass_and_get_string *)
CopyFailed(err) == err # 0

(* s_pass_and_get_string from the result err of memcpy_s to the return,    *)
(* with the deferred CoTaskMemFree(str_local)                              *)
CopyWith(c, err) ==
  /\ ~crashed
  /\ Me(c).pc = "copy"
  /\ LET me == Me(c)
     IN  IF CopyFailed(err)
           THEN /\ SetMem(DeferCoTaskMemFree(TFree(Mem, me.s_out_str), me.str_local))
                /\ SetCall(c, [me EXCEPT !.pc = "reply", !.s_out_str = Null,
                                         !.str_local = Null, !.cperr = err,
                                         !.s_status = ERROR_INTERNAL_ERROR])
           ELSE /\ SetMem(DeferCoTaskMemFree(
                            IF err = 0
                              THEN Store(Mem, me.s_out_str,
                                     memcpy_bytes(heap[me.str_local].data, me.buffer_size))
                              ELSE Mem,
                            me.str_local))
                /\ SetCall(c, [me EXCEPT !.pc = "reply", !.str_local = Null,
                                         !.cperr = err,
                                         !.s_status = ERROR_SUCCESS])
  /\ UNCHANGED <<hostVars, handles, ncalls, crashed>>

(* memcpy_s from str_local into the transport buffer, buffer_size bytes of *)
(* buffer_size, and what follows it                                        *)
Copy(c) ==
  CopyWith(c, memcpy_s_err(Me(c).s_out_str = Null, Me(c).buffer_size,
                           Me(c).str_local = Null, Me(c).buffer_size))

(* the stub's marshalling of a [string] buffer: the bytes up to and        *)
(* including the terminator                                                *)
MarshalString(data) == c_str(string_from(data))

(* the server stub marshals the [out] string and the status and frees the  *)
(* [out] buffer with the stub descriptor's free function; the client stub  *)
(* unmarshals the string into a MIDL_user_allocate buffer (ok = FALSE: the *)
(* allocation fails and the stub raises); rpc_exception_wrapper returns    *)
(* the status                                                              *)
Reply(c, ok) ==
  /\ ~crashed
  /\ Me(c).pc = "reply"
  /\ LET me == Me(c)
         m1 == TFree(Mem, me.s_out_str)
     IN  IF me.s_out_str = Null
           THEN /\ ok
                /\ SetCall(c, [me EXCEPT
                     !.pc = AfterWrapper(
                              rpc_exception_wrapper(FALSE, RPC_S_OK, me.s_status),
                              me.attempts),
                     !.out_str = Null,
                     !.status = rpc_exception_wrapper(FALSE, RPC_S_OK, me.s_status)])
                /\ UNCHANGED <<heap, tbalance, errs, crashed>>
           ELSE LET wire == MarshalString(heap[me.s_out_str].data)
                    a == TAlloc(m1, Len(wire), ok)
                IN  IF a.addr = Null
                      THEN /\ SetMem(a.mem)
                           /\ SetCall(c, [me EXCEPT
                                !.pc = AfterWrapper(
                                         rpc_exception_wrapper(TRUE, RPC_S_OUT_OF_MEMORY, me.s_status),
                                         me.attempts),
                                !.s_out_str = Null, !.out_str = Null,
                                !.injected = @ \/ ~ok,
                                !.fault = RPC_S_OUT_OF_MEMORY,
                                !.status = rpc_exception_wrapper(TRUE, RPC_S_OUT_OF_MEMORY, me.s_status)])
                           /\ crashed' = ~RpcExceptionFilter(RPC_S_OUT_OF_MEMORY)
                      ELSE /\ SetMem(Store(a.mem, a.addr, wire))
                           /\ SetCall(c, [me EXCEPT
                                !.pc = AfterWrapper(
                                         rpc_exception_wrapper(FALSE, RPC_S_OK, me.s_status),
                                         me.attempts),
                                !.s_out_str = Null, !.out_str = a.addr,
                                !.status = rpc_exception_wrapper(FALSE, RPC_S_OK, me.s_status)])
                           /\ UNCHANGED crashed
  /\ UNCHANGED <<hostVars, handles, ncalls>>

(* variant: the output buffer is freed before it is copied *)
client_pass_and_get_string_FreeFirst(m, status, out_str, ok) ==
  IF status # ERROR_SUCCESS
    THEN [thrown |-> TRUE, result |-> <<>>, mem |-> m]
  ELSE IF out_str = Null
    THEN [thrown |-> FALSE, result |-> <<>>, mem |-> m]
  ELSE IF ok
    THEN [thrown |-> FALSE,
          result |-> string_from(TFree(m, out_str).heap[out_str].data),
          mem |-> TFree(m, out_str)]
  ELSE [thrown |-> TRUE, result |-> <<>>, mem |-> TFree(m, out_str)]

(* variant: a null output is reported as a failure *)
client_pass_and_get_string_NullThrows(m, status, out_str, ok) ==
  IF status # ERROR_SUCCESS \/ out_str = Null
    THEN [thrown |-> TRUE, result |-> <<>>, mem |-> m]
  ELSE IF ok
    THEN [thrown |-> FALSE, result |-> string_from(m.heap[out_str].data),
          mem |-> TFree(m, out_str)]
  ELSE [thrown |-> TRUE, result |-> <<>>, mem |-> TFree(m, out_str)]

(* client::pass_and_get_string after the wrapper returned: the status      *)
(* test, the null test and the copy into std::string under the deferred    *)
(* MIDL_user_free; ok = FALSE is std::string throwing std::bad_alloc       *)
client_pass_and_get_string(m, status, out_str, ok) ==
  IF status # ERROR_SUCCESS
    THEN [thrown |-> TRUE, result |-> <<>>, mem |-> m]
  ELSE IF out_str = Null
    THEN [thrown |-> FALSE, result |-> <<>>, mem |-> m]
  ELSE IF ok
    THEN [thrown |-> FALSE, result |-> string_from(m.heap[out_str].data),
          mem |-> DeferUserFree(m, out_str, FALSE)]
  ELSE [thrown |-> TRUE, result |-> <<>>, mem |-> DeferUserFree(m, out_str, TRUE)]

(* variant: the returned string is allocated with MIDL_user_allocate *)
alloc_co_task_string_TransportAlloc(m, str, ok) ==
  LET buffer_size == Len(str) + 1
      a == TAlloc(m, buffer_size, ok)
  IN  IF a.addr = Null
        THEN [thrown |-> TRUE, addr |-> Null, mem |-> a.mem]
        ELSE [thrown |-> FALSE, addr |-> a.addr,
              mem |-> Store(a.mem, a.addr, memcpy_bytes(c_str(str), buffer_size))]

(* alloc_co_task_string(str); ok = FALSE is CoTaskMemAlloc returning null  *)
alloc_co_task_string(m, str, ok) ==
  LET buffer_size == Len(str) + 1
      a == FAlloc(m, buffer_size, ok)
  IN  IF a.addr = Null
        THEN [thrown |-> TRUE, addr |-> Null, mem |-> a.mem]
      ELSE IF memcpy_s_err(FALSE, buffer_size, FALSE, buffer_size) # 0
        THEN [thrown |-> TRUE, addr |-> Null, mem |-> FFree(a.mem, a.addr)]
      ELSE [thrown |-> FALSE, addr |-> a.addr,
            mem |-> Store(a.mem, a.addr, memcpy_bytes(c_str(str), buffer_size))]

(* the rest of either export once the transport call is over:              *)
(* client::pass_and_get_string evaluates the status and copies the output, *)
(* alloc_co_task_string builds the value that is returned or written       *)
(* behind out_str, the deferred                                            *)
(* RpcBindingFree runs when the try block is left, and a caught exception  *)
(* becomes the return value nullptr                                        *)
Check(c, okStr, okCo) ==
  /\ ~crashed
  /\ Me(c).pc = "check"
  /\ LET me == Me(c)
         r == client_pass_and_get_string(Mem, me.status, me.out_str, okStr)
         a == alloc_co_task_string(r.mem, r.result, okCo)
         thrown == r.thrown \/ a.thrown
         m == IF r.thrown THEN r.mem ELSE a.mem
         out == IF me.status # ERROR_SUCCESS THEN me.out_str ELSE Null
     IN  /\ (me.status # ERROR_SUCCESS \/ me.out_str = Null) => okStr
         /\ r.thrown => okCo
         /\ handles' = DeferBindingFree(handles, me.handle, thrown)
         /\ SetMem([m EXCEPT !.errs = @ \cup ReleaseDefect(handles, me.handle)])
         /\ IF thrown
              THEN SetCall(c, [Caught(me) EXCEPT
                     !.out_str = out,
                     !.injected = @ \/ ~okStr \/ ~okCo])
              ELSE SetCall(c, [me EXCEPT !.pc = "returned", !.ret = a.addr,
                                         !.out_str = out, !.handle = Null])
  /\ UNCHANGED <<hostVars, ncalls, crashed>>

(* the managed caller converts the string the export returned, or wrote    *)
(* behind out_str, and frees it with the COM task allocator                *)
CallerTake(c) ==
  /\ ~crashed
  /\ Me(c).pc = "returned"
  /\ SetMem(FFree(Mem, IF Me(c).ret = Me(c).prior THEN Null ELSE Me(c).ret))
  /\ SetCall(c, IdleCall)
  /\ UNCHANGED <<hostVars, handles, ncalls, crashed>>

(* --------------------------- specification ----------------------------- *)
(* Spec: one caller thread against the complete life cycle of the service  *)
(* host, any sequence of server_initialize and server_terminate            *)
Caller == 1

Next ==
  \/ \E cbs \in CallbackSets, st \in ApiStatuses : ServerInitialize(cbs, st)
  \/ \E st \in ApiStatuses : InitRegisterIf(st)
  \/ InitInstall
  \/ InitInstall2
  \/ ServerTerminate
  \/ TermClear2
  \/ TermUnregister
  \/ \E arg \in Args, st1, st2 \in ApiStatuses : ExportCall(Caller, arg, st1, st2)
  \/ Invoke(Caller)
  \/ Dispatch(Caller)
  \/ CallbackReturn(Caller)
  \/ \E ok \in BOOLEAN : Convert(Caller, ok)
  \/ Copy(Caller)
  \/ \E ok \in BOOLEAN : Reply(Caller, ok)
  \/ \E okStr, okCo \in BOOLEAN : Check(Caller, okStr, okCo)
  \/ CallerTake(Caller)

Spec == Init /\ [][Next]_vars

(* SpecLive: Spec with fair scheduling of the threads that carry a call    *)
(* (the caller's thread, the RPC worker thread) and a callback that        *)
(* returns: a step of a call in progress that stays possible is taken      *)
CallStep(c) ==
  \/ Invoke(c)
  \/ Dispatch(c)
  \/ CallbackReturn(c)
  \/ \E ok \in BOOLEAN : Convert(c, ok)
  \/ Copy(c)
  \/ \E ok \in BOOLEAN : Reply(c, ok)
  \/ \E okStr, okCo \in BOOLEAN : Check(c, okStr, okCo)

SpecLive == Init /\ [][Next]_vars /\ WF_vars(CallStep(Caller))

(* SpecOut: Spec with the caller using the export pass_and_get_string_out  *)
NextOut ==
  \/ \E cbs \in CallbackSets, st \in ApiStatuses : ServerInitialize(cbs, st)
  \/ \E st \in ApiStatuses : InitRegisterIf(st)
  \/ InitInstall
  \/ InitInstall2
  \/ ServerTerminate
  \/ TermClear2
  \/ TermUnregister
  \/ \E arg \in Args, outp \in OutArgs, st1, st2 \in ApiStatuses :
       ExportCallOut(Caller, arg, outp, st1, st2)
  \/ Invoke(Caller)
  \/ Dispatch(Caller)
  \/ CallbackReturn(Caller)
  \/ \E ok \in BOOLEAN : Convert(Caller, ok)
  \/ Copy(Caller)
  \/ \E ok \in BOOLEAN : Reply(Caller, ok)
  \/ \E okStr, okCo \in BOOLEAN : Check(Caller, okStr, okCo)
  \/ CallerTake(Caller)

SpecOut == Init /\ [][NextOut]_vars

(* SpecCopyFault: Spec with the result of memcpy_s left open, to reach the *)
(* branch of s_pass_and_get_string that handles a failed copy              *)
MemcpyResults == {0, 22, 34}

NextCopyFault ==
  \/ \E cbs \in CallbackSets, st \in ApiStatuses : ServerInitialize(cbs, st)
  \/ \E st \in ApiStatuses : InitRegisterIf(st)
  \/ InitInstall
  \/ InitInstall2
  \/ ServerTerminate
  \/ TermClear2
  \/ TermUnregister
  \/ \E arg \in Args, st1, st2 \in ApiStatuses : ExportCall(Caller, arg, st1, st2)
  \/ Invoke(Caller)
  \/ Dispatch(Caller)
  \/ CallbackReturn(Caller)
  \/ \E ok \in BOOLEAN : Convert(Caller, ok)
  \/ \E err \in MemcpyResults : CopyWith(Caller, err)
  \/ \E ok \in BOOLEAN : Reply(Caller, ok)
  \/ \E okStr, okCo \in BOOLEAN : Check(Caller, okStr, okCo)
  \/ CallerTake(Caller)

SpecCopyFault == Init /\ [][NextCopyFault]_vars

(* SpecConc: NClients caller threads against one registration of the       *)
(* service: server_initialize is called until it has succeeded once        *)
FirstInitialize(cbs, st) ==
  /\ hlast # [op |-> "initialize", ok |-> TRUE]
  /\ ServerInitialize(cbs, st)

NextConc ==
  \/ \E cbs \in CallbackSets, st \in ApiStatuses : FirstInitialize(cbs, st)
  \/ \E st \in ApiStatuses : InitRegisterIf(st)
  \/ InitInstall
  \/ InitInstall2
  \/ \E c \in Clients, arg \in Args, st1, st2 \in ApiStatuses : ExportCall(c, arg, st1, st2)
  \/ \E c \in Clients : Invoke(c)
  \/ \E c \in Clients : Dispatch(c)
  \/ \E c \in Clients : CallbackReturn(c)
  \/ \E c \in Clients, ok \in BOOLEAN : Convert(c, ok)
  \/ \E c \in Clients : Copy(c)
  \/ \E c \in Clients, ok \in BOOLEAN : Reply(c, ok)
  \/ \E c \in Clients, okStr, okCo \in BOOLEAN : Check(c, okStr, okCo)
  \/ \E c \in Clients : CallerTake(c)

SpecConc == Init /\ [][NextConc]_vars

TypeOK ==
  /\ slot \in [pass_and_get_string : {NullFn, "f", "g"},
               pass_and_get_string_out : {NullFn, "f_out", "g_out"}]
  /\ ifRegistered \in BOOLEAN
  /\ hpc \in {"idle", "init_register", "init_install", "init_install2",
              "term_clear2", "term_unregister"}
  /\ \A c \in Clients : cl[c].pc \in {"idle", "invoke", "dispatch",
        "callback", "convert", "copy", "reply", "check", "returned", "escaped"}
  /\ ncalls \in 0..MaxCalls

(* ------------------------------ properties ----------------------------- *)
InFlight(c) == cl[c].pc \notin {"idle", "returned"}
Returned(c) == cl[c].pc = "returned"
Quiescent == \A c \in Clients : ~InFlight(c)

(* what the callback the dispatch invoked returns for the caller's string *)
Expected(c) == CallbackResult(cl[c].fn, string_from(cl[c].str))

(* the buffers a call holds *)
Bufs(c) == {cl[c].str_local, cl[c].s_out_str, cl[c].out_str, cl[c].ret} \ {Null}

(* C1: a call pass_and_get_string(s) whose dispatch found a registered     *)
(* callback f, and in which no allocation or runtime call failed, returns  *)
(* exactly f(s), for every input string including the empty one            *)
C1_ReturnsCallbackResult ==
  \A c \in Clients :
    (Returned(c) /\ cl[c].cbCount > 0 /\ ~cl[c].injected /\ Expected(c) # None)
      => /\ cl[c].ret # Null
         /\ heap[cl[c].ret].data = c_str(Expected(c)[1])

C1_Witness ==
  /\ Returned(Caller)
  /\ cl[Caller].fn = "f"
  /\ ~cl[Caller].injected
  /\ cl[Caller].str = c_str(StrOfLen(MaxLen))
  /\ cl[Caller].ret # Null

(* C2: with concurrent calls against one registered service the callback   *)
(* is invoked at most once per call and exactly once for a call that got a *)
(* result, always with the call's own argument; each call receives the     *)
(* result computed from its own argument; two calls never hold the same    *)
(* buffer                                                                  *)
C2_ConcurrentCallsIsolated ==
  /\ \A c \in Clients :
       /\ cl[c].cbCount <= 1
       /\ cl[c].pc \in {"callback", "convert", "copy", "reply"} => cl[c].cbCount = 1
       /\ cl[c].cbCount = 1 => cl[c].cbArg = cl[c].str
       /\ (Returned(c) /\ cl[c].ret # Null) => cl[c].cbCount = 1
       /\ (Returned(c) /\ cl[c].cbCount = 1 /\ ~cl[c].injected)
            => /\ cl[c].ret # Null
               /\ string_from(heap[cl[c].ret].data) =
                    (IF Expected(c) = None THEN <<>> ELSE Expected(c)[1])
  /\ \A c, d \in Clients : c # d => Bufs(c) \cap Bufs(d) = {}

C2_Witness ==
  /\ cl[1].pc = "copy"
  /\ cl[2].pc = "copy"
  /\ cl[1].str # cl[2].str
  /\ cl[1].s_out_str # cl[2].s_out_str

(* C3: a call handed to the transport while the interface is not           *)
(* registered ends with the transport fault as its non-success status,     *)
(* without a callback invocation, without output and without killing the   *)
(* process                                                                 *)
C3_UnregisteredCallFails ==
  \A c \in Clients :
    cl[c].sentUnreg
      => /\ cl[c].pc \in {"check", "returned"}
         /\ cl[c].status # ERROR_SUCCESS
         /\ cl[c].status = TransportFault
         /\ cl[c].cbCount = 0
         /\ cl[c].out_str = Null
         /\ cl[c].ret = Null
         /\ ~crashed

C3_Witness ==
  /\ Returned(Caller)
  /\ cl[Caller].sentUnreg
  /\ hlast.op = "none"
  /\ cl[Caller].status = RPC_S_SERVER_UNAVAILABLE

(* C4: when the callback returns null the dispatch returns ERROR_SUCCESS   *)
(* with a null output, the gateway sees status success and a null output,  *)
(* and the export returns an empty string                                  *)
NullResult(c) ==
  /\ cl[c].cbCount = 1
  /\ cl[c].pc \in {"convert", "reply", "check", "returned"}
  /\ CallbackResult(cl[c].fn, string_from(cl[c].cbArg)) = None

C4_NullResultIsSuccess ==
  \A c \in Clients :
    NullResult(c)
      => /\ cl[c].str_local = Null
         /\ cl[c].pc = "reply" => (cl[c].s_status = ERROR_SUCCESS /\ cl[c].s_out_str = Null)
         /\ cl[c].pc \in {"check", "returned"}
              => (cl[c].status = ERROR_SUCCESS /\ cl[c].out_str = Null)
         /\ (Returned(c) /\ ~cl[c].injected)
              => (cl[c].ret # Null /\ heap[cl[c].ret].data = <<NUL>>)

C4_Witness ==
  /\ NullResult(Caller)
  /\ Returned(Caller)
  /\ cl[Caller].ret # Null

(* C5: once a server_terminate followed by a server_initialize(g) has      *)
(* returned, the slot holds g (nothing, when that initialize failed), and  *)
(* a dispatch that reads the slot then invokes g, never the callback of    *)
(* the registration before                                                 *)
Reinitialized ==
  /\ hpc = "idle"
  /\ hprev = "terminate"
  /\ hlast.op = "initialize"

C5_NoResidualCallback ==
  /\ [](Reinitialized =>
          slot.pass_and_get_string =
            (IF hlast.ok THEN hcb.pass_and_get_string ELSE NullFn))
  /\ [][Reinitialized =>
          \A c \in Clients :
            (cl[c].pc = "dispatch" /\ cl'[c].pc = "callback")
              => (hlast.ok /\ cl'[c].fn = hcb.pass_and_get_string)]_vars

C5_Witness ==
  /\ Reinitialized
  /\ hlast.ok
  /\ hold = "f"
  /\ cl[Caller].pc = "callback"
  /\ cl[Caller].fn = "g"

(* C6: a call handed to the transport after server_terminate has returned  *)
(* and before the next server_initialize begins fails with the transport   *)
(* fault as its status, invokes no callback and returns no output          *)
C6_CallAfterTerminateFails ==
  \A c \in Clients :
    cl[c].sentAfterTerm
      => /\ ~crashed
         /\ cl[c].pc \in {"check", "returned"}
         /\ cl[c].status = TransportFault
         /\ cl[c].status # ERROR_SUCCESS
         /\ cl[c].cbCount = 0
         /\ cl[c].out_str = Null
         /\ cl[c].ret = Null

C6_Witness ==
  /\ Returned(Caller)
  /\ cl[Caller].sentAfterTerm
  /\ hold = "f"
  /\ hlast = [op |-> "terminate", ok |-> TRUE]

(* C7: no transport buffer is freed twice or through another allocator,    *)
(* the allocations not yet freed are exactly the live transport buffers,   *)
(* and once all calls have completed every allocation has been freed       *)
C7_TransportBuffersBalanced ==
  /\ errs \cap {"double_free_transport", "domain_mismatch"} = {}
  /\ tbalance = Cardinality({a \in Addr : heap[a].dom = "transport"})
  /\ Quiescent => tbalance = 0

C7_Witness ==
  /\ Quiescent
  /\ Returned(1) /\ cl[1].ret # Null
  /\ Returned(2) /\ cl[2].cbCount = 1 /\ cl[2].status # ERROR_SUCCESS

(* C8: a dispatch that ends with a status other than success leaves the    *)
(* output null, and a gateway call with a status other than success has a  *)
(* null output and returns nothing                                         *)
C8_FailureHasNoOutput ==
  \A c \in Clients :
    /\ (cl[c].pc = "reply" /\ cl[c].s_status # ERROR_SUCCESS) => cl[c].s_out_str = Null
    /\ (cl[c].pc \in {"check", "returned"} /\ cl[c].status # ERROR_SUCCESS)
         => (cl[c].out_str = Null /\ cl[c].ret = Null)

C8_Witness ==
  /\ cl[Caller].pc = "reply"
  /\ cl[Caller].s_status = ERROR_NOT_ENOUGH_MEMORY
  /\ cl[Caller].s_out_str = Null

(* C9: the handle connect created is released when the export returns, on  *)
(* the normal and on every exceptional path, never twice, and no handle is *)
(* live once all calls have completed                                      *)
C9_HandleReleasedOnce ==
  /\ "handle_double_release" \notin errs
  /\ \A c \in Clients :
       (Returned(c) /\ cl[c].made # Null) => handles[cl[c].made] = "freed"
  /\ Quiescent => \A h \in HandleIds : handles[h] # "live"

C9_Witness ==
  /\ Returned(1)
  /\ cl[1].made # Null
  /\ cl[1].status = ERROR_SUCCESS
  /\ cl[1].injected
  /\ cl[1].ret = Null
  /\ handles[cl[1].made] = "freed"

(* C10: a call is handed to the transport only on a live handle, a call in *)
(* progress holds a live handle, and every connect that returns hands out  *)
(* a handle that did not exist before                                      *)
C10_NoHandleReuse ==
  /\ []("handle_use_after_release" \notin errs)
  /\ [](\A c \in Clients :
          InFlight(c) => (cl[c].handle # Null /\ handles[cl[c].handle] = "live"))
  /\ [][\A c \in Clients :
          (cl[c].pc = "idle" /\ cl'[c].made # Null)
            => (handles[cl'[c].made] = "unborn" /\ handles'[cl'[c].made] = "live")]_vars

C10_Witness ==
  /\ cl[1].pc = "invoke"
  /\ cl[1].handle = 2
  /\ handles[1] = "freed"

(* a step in which server_initialize or server_terminate returns *)
HostReturns(op) ==
  /\ hpc' = "idle"
  /\ hlast'.op = op
  /\ <<hpc, hlast, hprev>>' # <<hpc, hlast, hprev>>

C12_UnregisterBeforeClear ==
  [][(hpc' \in {"term_clear2", "term_unregister"} /\ slot' # slot)
        => ~ifRegistered]_vars

(* C13: while initialize runs with the interface registered, the callback  *)
(* slot holds the callbacks passed to that initialize                      *)
C13_InstallAtomic ==
  (ifRegistered /\ hpc \in {"init_install", "init_install2"}) => slot = hcb

(* C14: a successful initialize has returned while the interface is still  *)
(* registered with the callbacks installed, and no step of initialize      *)
(* waits: in every state inside initialize its next step can be taken      *)
HostInitStep ==
  \/ \E st \in ApiStatuses : InitRegisterIf(st)
  \/ InitInstall
  \/ InitInstall2

C14_InitializeDoesNotBlock ==
  /\ (hpc = "idle" /\ hlast = [op |-> "initialize", ok |-> TRUE])
       => (ifRegistered /\ slot = hcb)
  /\ (~crashed /\ hpc \in {"init_register", "init_install", "init_install2"})
       => ENABLED HostInitStep

C14_Witness ==
  /\ hpc = "idle"
  /\ hlast = [op |-> "initialize", ok |-> TRUE]
  /\ hprev = "none"
  /\ ifRegistered
  /\ cl[Caller].pc = "callback"
  /\ cl[Caller].fn = "f"

(* C15: no free is made through the free function of another allocator:   *)
(* the buffers the dispatch and the caller hand to CoTaskMemFree are COM   *)
(* task memory, the buffers handed to MIDL_user_free are transport memory  *)
C15_FreeInOwnDomain ==
  /\ "domain_mismatch" \notin errs
  /\ \A c \in Clients :
       /\ cl[c].str_local # Null => heap[cl[c].str_local].dom = "foreign"
       /\ cl[c].ret # Null => heap[cl[c].ret].dom = "foreign"
       /\ cl[c].s_out_str # Null => heap[cl[c].s_out_str].dom = "transport"
       /\ cl[c].out_str # Null => heap[cl[c].out_str].dom = "transport"

C15_Witness ==
  /\ Returned(Caller)
  /\ cl[Caller].cbCount = 1
  /\ cl[Caller].ret # Null
  /\ heap[cl[Caller].ret].dom = "foreign"
  /\ \A a \in Addr : a # cl[Caller].ret => heap[a].dom = "free"
  /\ errs = {}

(* C16: connect returns a handle also while the interface is not           *)
(* registered, a call that ended in connect ended there because            *)
(* RpcStringBindingComposeA or RpcBindingFromStringBindingA failed, and a  *)
(* call to an unregistered interface fails in the invocation, on the       *)
(* handle connect returned                                                 *)
ConnectSucceeds(c) ==
  \E s \in Inputs :
    ExportCall(c, Some(s), RPC_S_OK, RPC_S_OK) /\ cl'[c].pc = "invoke"

C16_ConnectIgnoresRegistration ==
  \A c \in Clients :
    /\ (Returned(c) /\ cl[c].attempts = 0) => cl[c].injected
    /\ cl[c].sentUnreg => (cl[c].made # Null /\ cl[c].attempts = 1)
    /\ (/\ ~crashed
        /\ ~ifRegistered
        /\ cl[c].pc = "idle"
        /\ ncalls < MaxCalls
        /\ \A d \in Clients : d < c => cl[d].pc # "idle")
         => ENABLED ConnectSucceeds(c)

C16_Witness ==
  /\ cl[Caller].pc = "invoke"
  /\ ~ifRegistered
  /\ hlast.op = "none"
  /\ cl[Caller].handle # Null
  /\ handles[cl[Caller].handle] = "live"

(* C17: the status rpc_exception_wrapper returns is the code of the        *)
(* exception when the transport raised one and the status of the remote    *)
(* procedure otherwise, and no exception raised inside the wrapper ends    *)
(* the process: the only steps that do are the call through a null entry   *)
(* of the callback slot and the export's conversion of a null argument     *)
C17_OneErrorChannel ==
  /\ [](\A c \in Clients :
          (cl[c].pc \in {"check", "returned"} /\ cl[c].attempts = 1)
            => cl[c].status = (IF cl[c].fault # 0 THEN cl[c].fault ELSE cl[c].s_status))
  /\ [][(crashed' /\ ~crashed)
          => \E c \in Clients :
               \/ /\ cl[c].pc = "dispatch"
                  /\ slot.pass_and_get_string = NullFn
                  /\ cl' = cl
               \/ /\ cl[c].pc = "idle"
                  /\ cl'[c].pc = "escaped"]_vars

C17_Witness ==
  /\ cl[Caller].pc = "check"
  /\ cl[Caller].fault = RPC_S_OUT_OF_MEMORY
  /\ cl[Caller].status = RPC_S_OUT_OF_MEMORY
  /\ cl[Caller].s_status = ERROR_SUCCESS
  /\ cl[Caller].cbCount = 1
  /\ ~crashed

(* C18: when the dispatch ran and the transport raised nothing, the status *)
(* the gateway receives is the status s_pass_and_get_string returned,      *)
(* success or not, and a status other than success ends the call without   *)
(* a result                                                                *)
C18_StatusPassedThrough ==
  \A c \in Clients :
    (cl[c].pc \in {"check", "returned"} /\ cl[c].cbCount = 1 /\ cl[c].fault = 0)
      => /\ cl[c].status = cl[c].s_status
         /\ cl[c].s_status \in {ERROR_SUCCESS, ERROR_NOT_ENOUGH_MEMORY, ERROR_INTERNAL_ERROR}
         /\ (Returned(c) /\ cl[c].s_status # ERROR_SUCCESS) => cl[c].ret = Null

C18_Witness ==
  /\ Returned(Caller)
  /\ cl[Caller].cbCount = 1
  /\ cl[Caller].fault = 0
  /\ cl[Caller].s_status = ERROR_NOT_ENOUGH_MEMORY
  /\ cl[Caller].status = ERROR_NOT_ENOUGH_MEMORY

(* C19: in the step in which the gateway takes a non-null output buffer,   *)
(* the buffer is freed exactly once through MIDL_user_free, also when the  *)
(* copy or the allocation of the return value throws; a returned value is  *)
(* a COM task memory buffer holding the string the output buffer held      *)
(* before it was freed                                                     *)
C19_CopyThenFree ==
  [][\A c \in Clients :
       (cl[c].pc = "check" /\ cl'[c].pc = "returned" /\ cl[c].out_str # Null)
         => /\ tbalance' = tbalance - 1
            /\ "double_free_transport" \notin errs'
            /\ \A a \in Addr : heap'[a].dom = "transport"
                 => (a # cl[c].out_str /\ heap[a].dom = "transport")
            /\ cl'[c].out_str = Null
            /\ cl'[c].ret # Null
                 => /\ heap'[cl'[c].ret].dom = "foreign"
                    /\ heap'[cl'[c].ret].data =
                         c_str(string_from(heap[cl[c].out_str].data))
            /\ cl'[c].ret = Null => cl'[c].injected]_vars

C19_Witness ==
  /\ Returned(Caller)
  /\ cl[Caller].fn = "g"
  /\ cl[Caller].str = c_str(StrOfLen(MaxLen))
  /\ cl[Caller].status = ERROR_SUCCESS
  /\ cl[Caller].ret # Null
  /\ heap[cl[Caller].ret].data = c_str(Tail(StrOfLen(MaxLen)))
  /\ \A a \in Addr : heap[a].dom # "transport"

(* C20: when the callback returned a string, the result buffer is live and *)
(* distinct from the transport buffer until it has been copied, and once   *)
(* the dispatch has returned it has been freed, exactly once and through   *)
(* CoTaskMemFree, whether the dispatch succeeded or the transport          *)
(* allocation failed; on success the transport buffer holds the result     *)
C20_ForeignResultFreedOnce ==
  \A c \in Clients :
    (cl[c].cbCount = 1 /\ CallbackResult(cl[c].fn, string_from(cl[c].cbArg)) # None)
      => LET res == CallbackResult(cl[c].fn, string_from(cl[c].cbArg))[1]
         IN  /\ cl[c].pc = "copy"
                  => /\ cl[c].str_local # Null
                     /\ cl[c].s_out_str # Null
                     /\ cl[c].s_out_str # cl[c].str_local
                     /\ heap[cl[c].str_local].dom = "foreign"
                     /\ heap[cl[c].str_local].data = c_str(res)
             /\ cl[c].pc = "reply"
                  => /\ cl[c].str_local = Null
                     /\ \A a \in Addr : heap[a].dom # "foreign"
                     /\ errs \cap {"double_free_foreign", "domain_mismatch"} = {}
                     /\ cl[c].s_status = ERROR_SUCCESS
                          => /\ cl[c].s_out_str # Null
                             /\ heap[cl[c].s_out_str].dom = "transport"
                             /\ heap[cl[c].s_out_str].data = c_str(res)
                     /\ cl[c].s_status # ERROR_SUCCESS => cl[c].s_out_str = Null

C20_Witness ==
  /\ cl[Caller].pc = "reply"
  /\ cl[Caller].cbCount = 1
  /\ cl[Caller].fn = "f"
  /\ cl[Caller].s_status = ERROR_NOT_ENOUGH_MEMORY
  /\ \A a \in Addr : heap[a].dom = "free"

(* C21: no dispatch is about to read the callback slot while initialize or *)
(* terminate is between its two stores to the slot                         *)
C21_NoSlotRace ==
  ~(/\ hpc \in {"init_install2", "term_clear2"}
    /\ \E c \in Clients : cl[c].pc = "dispatch")

(* C22: the callback slot is empty or holds exactly one of the callback    *)
(* sets passed to initialize                                               *)
C22_SlotHoldsWholeSet == slot \in CallbackSets

(* C23: a string the callback returned arrives unchanged at the client:    *)
(* the output buffer the gateway receives holds the same bytes and the     *)
(* same length, followed by the terminator, and so does the value the      *)
(* export returns                                                          *)
C23_RoundTrip ==
  \A c \in Clients :
    (cl[c].cbCount = 1 /\ cl[c].fault = 0
       /\ CallbackResult(cl[c].fn, string_from(cl[c].cbArg)) # None)
      => LET b == CallbackResult(cl[c].fn, string_from(cl[c].cbArg))[1]
         IN  /\ (cl[c].pc = "check" /\ cl[c].status = ERROR_SUCCESS)
                  => /\ cl[c].out_str # Null
                     /\ heap[cl[c].out_str].data = c_str(b)
                     /\ string_from(heap[cl[c].out_str].data) = b
                     /\ strlen(heap[cl[c].out_str].data) = Len(b)
             /\ (Returned(c) /\ cl[c].ret # Null)
                  => /\ string_from(heap[cl[c].ret].data) = b
                     /\ strlen(heap[cl[c].ret].data) = Len(b)

C23_Witness ==
  /\ cl[Caller].pc = "check"
  /\ cl[Caller].fn = "f"
  /\ cl[Caller].status = ERROR_SUCCESS
  /\ cl[Caller].out_str # Null
  /\ strlen(heap[cl[Caller].out_str].data) = MaxLen + 1

(* C24: no call of the export ends with an exception leaving it, a call    *)
(* that returned has a result exactly when connect, the remote call and    *)
(* the local copies all succeeded, and the result is COM task memory       *)
C24_ExportFailuresBecomeNull ==
  \A c \in Clients :
    /\ cl[c].pc # "escaped"
    /\ Returned(c)
         => (cl[c].ret # Null <=>
               (cl[c].made # Null /\ cl[c].attempts = 1
                  /\ cl[c].status = ERROR_SUCCESS /\ ~cl[c].injected))
    /\ (Returned(c) /\ cl[c].ret # Null) => heap[cl[c].ret].dom = "foreign"

(* C25: a call of the export hands at most one request to the transport    *)
(* and has the callback invoked at most once, only for a request it sent;  *)
(* a call whose request failed returns null after that single attempt      *)
C25_NoRetry ==
  \A c \in Clients :
    /\ cl[c].attempts <= 1
    /\ cl[c].cbCount <= cl[c].attempts
    /\ (cl[c].pc \in {"check", "returned"} /\ cl[c].status # ERROR_SUCCESS)
         => (cl[c].attempts = 1 /\ cl[c].ret = Null)
    /\ (Returned(c) /\ cl[c].made # Null) => cl[c].attempts = 1

C25_Witness ==
  /\ Returned(Caller)
  /\ cl[Caller].attempts = 1
  /\ cl[Caller].cbCount = 0
  /\ cl[Caller].status = RPC_S_SERVER_UNAVAILABLE
  /\ ifRegistered
  /\ hlast = [op |-> "initialize", ok |-> TRUE]

(* C26: every call of the export that has begun eventually returns to its  *)
(* caller, with a result or with null for a failure                        *)
C26_CallsComplete ==
  \A c \in Clients : (cl[c].pc \notin {"idle", "returned"}) ~> Returned(c)

(* C27: whenever a dispatch reads the callback slot and makes the call,    *)
(* the pass_and_get_string entry it reads is not null                      *)
C27_DispatchEntryNotNull ==
  [][(\E c \in Clients :
        /\ cl[c].pc = "dispatch"
        /\ (cl'[c].pc # "dispatch" \/ crashed' # crashed))
       => slot.pass_and_get_string # NullFn]_vars

(* C28: once server_terminate has returned true, no call is executing the  *)
(* callback that was installed when that terminate began                   *)
C28_NoCallbackAfterTerminate ==
  (hpc = "idle" /\ hlast = [op |-> "terminate", ok |-> TRUE])
    => \A c \in Clients : ~(cl[c].pc = "callback" /\ cl[c].fn = hold)

(* C29: two calls never hold the same binding handle, each call that       *)
(* connected created a handle of its own, and a handle a call holds is     *)
(* the one it created                                                      *)
C29_HandlePerCall ==
  /\ \A c, d \in Clients :
       c # d => /\ (cl[c].handle # Null /\ cl[d].handle # Null)
                     => cl[c].handle # cl[d].handle
                /\ (cl[c].made # Null /\ cl[d].made # Null)
                     => cl[c].made # cl[d].made
  /\ \A c \in Clients :
       /\ cl[c].handle # Null => cl[c].handle = cl[c].made
       /\ cl[c].pc \in {"invoke", "dispatch", "callback", "convert", "copy",
                        "reply", "check"} => cl[c].made # Null

C29_Witness ==
  /\ cl[1].pc = "callback"
  /\ cl[2].pc = "callback"
  /\ cl[1].handle # cl[2].handle
  /\ handles[cl[1].handle] = "live"
  /\ handles[cl[2].handle] = "live"

(* C30: from the call of initialize to a return with failure the callback  *)
(* slot is not written: the failure return comes from one of the two       *)
(* registration steps and no step up to it changes the slot                *)
C30_FailedInitializeKeepsSlot ==
  [][/\ (HostReturns("initialize") /\ ~hlast'.ok)
          => (hpc \in {"idle", "init_register"} /\ slot' = slot)
     /\ hpc' = "init_register" => slot' = slot
     /\ hpc = "init_register" => slot' = slot]_vars

C30_Witness ==
  /\ hpc = "idle"
  /\ hlast = [op |-> "initialize", ok |-> FALSE]
  /\ hprev = "initialize"
  /\ ifRegistered
  /\ hcb.pass_and_get_string = "g"
  /\ slot = [pass_and_get_string |-> "f", pass_and_get_string_out |-> "f_out"]

(* C31: whenever terminate has returned, with true or with false, and no   *)
(* later initialize has begun, the callback slot is empty; a terminate     *)
(* that failed because nothing was registered has cleared it as well       *)
C31_TerminateAlwaysClears ==
  (hpc = "idle" /\ hlast.op = "terminate") => slot = EmptyCallbacks

C31_Witness ==
  /\ hpc = "idle"
  /\ hlast = [op |-> "terminate", ok |-> FALSE]
  /\ hprev = "terminate"
  /\ hcb.pass_and_get_string = "f"
  /\ slot = EmptyCallbacks
  /\ ~ifRegistered

(* C32: in every reachable state, also inside initialize and terminate, a  *)
(* callback slot with any entry installed implies that the interface is    *)
(* registered: entries are written only after the registration succeeded   *)
(* and are cleared before the interface is unregistered                    *)
C32_InstalledImpliesRegistered ==
  /\ [](slot # EmptyCallbacks => ifRegistered)
  /\ [][/\ (slot = EmptyCallbacks /\ slot' # EmptyCallbacks) => ifRegistered
        /\ (ifRegistered /\ ~ifRegistered') => slot = EmptyCallbacks]_vars

C32_Witness ==
  /\ hpc = "term_clear2"
  /\ slot = [pass_and_get_string |-> NullFn, pass_and_get_string_out |-> "f_out"]
  /\ ifRegistered
  /\ hlast = [op |-> "initialize", ok |-> FALSE]

(* C33: the failure paths of the dispatch. When the transport allocation   *)
(* fails the dispatch returns ERROR_NOT_ENOUGH_MEMORY with a null output;  *)
(* when the copy fails it frees the transport buffer it had allocated,     *)
(* resets the output to null and returns ERROR_INTERNAL_ERROR; on both     *)
(* paths no transport buffer is left allocated and none is freed twice     *)
C33_DispatchFailurePaths ==
  /\ [](\A c \in Clients :
         cl[c].pc = "reply" =>
           /\ cl[c].s_status = ERROR_NOT_ENOUGH_MEMORY => cl[c].s_out_str = Null
           /\ cl[c].injected => cl[c].s_status = ERROR_NOT_ENOUGH_MEMORY
           /\ cl[c].cperr # 0 <=> cl[c].s_status = ERROR_INTERNAL_ERROR
           /\ cl[c].s_status = ERROR_INTERNAL_ERROR => cl[c].s_out_str = Null
           /\ cl[c].s_status # ERROR_SUCCESS
                => /\ \A a \in Addr : heap[a].dom # "transport"
                   /\ tbalance = 0
                   /\ "double_free_transport" \notin errs)
  /\ [][\A c \in Clients :
         (cl[c].pc = "copy" /\ cl'[c].cperr # 0)
           => /\ heap[cl[c].s_out_str].dom = "transport"
              /\ heap'[cl[c].s_out_str] = FreeCell
              /\ tbalance' = tbalance - 1]_vars

C33_Witness ==
  /\ cl[Caller].pc = "reply"
  /\ cl[Caller].cperr = 34
  /\ cl[Caller].cbCount = 1
  /\ cl[Caller].s_status = ERROR_INTERNAL_ERROR
  /\ cl[Caller].s_out_str = Null
  /\ tbalance = 0

(* C34: pass_and_get_string_out writes the caller's variable behind        *)
(* out_str only when the whole call succeeded: after a failed connect, a   *)
(* non-success call status or a failed allocation the variable holds what  *)
(* it held before the call; a written value is a string in COM task memory.*)
(* A null out_str is rejected at once: no session handle is created and no *)
(* call is made                                                            *)
C34_OutWrittenOnlyOnSuccess ==
  /\ [](\A c \in Clients :
         /\ (Returned(c) /\ cl[c].exp = "out")
              => /\ (cl[c].attempts = 0 \/ cl[c].status # ERROR_SUCCESS
                                        \/ cl[c].injected)
                      => cl[c].ret = cl[c].prior
                 /\ cl[c].ret # cl[c].prior
                      => /\ cl[c].ret \in Addr
                         /\ heap[cl[c].ret].dom = "foreign"
                         /\ cl[c].status = ERROR_SUCCESS
         /\ (cl[c].exp = "out" /\ ~Returned(c)) => cl[c].ret = cl[c].prior
         /\ cl[c].exp = "out_null"
              => /\ Returned(c)
                 /\ cl[c].made = Null
                 /\ cl[c].attempts = 0
                 /\ cl[c].cbCount = 0)
  /\ [][\A c \in Clients :
         (cl[c].pc = "idle" /\ cl'[c].exp = "out_null") => handles' = handles]_vars

C34_Witness ==
  /\ Returned(Caller)
  /\ cl[Caller].exp = "out"
  /\ cl[Caller].prior = Stale
  /\ cl[Caller].ret = Stale
  /\ cl[Caller].cbCount = 1
  /\ cl[Caller].status = ERROR_NOT_ENOUGH_MEMORY

(* C35: connect frees the string binding it composed exactly once, whether *)
(* the construction of the handle from it succeeded or failed; it frees    *)
(* nothing when the composition itself failed; a connect that fails        *)
(* returns no handle and creates none                                      *)
C35_StringBindingFreedOnce ==
  /\ [](\A c \in Clients :
         /\ cl[c].composed => cl[c].sfrees = 1
         /\ ~cl[c].composed => /\ cl[c].sfrees = 0
                               /\ cl[c].made = Null
                               /\ cl[c].handle = Null
         /\ (Returned(c) /\ cl[c].attempts = 0)
              => /\ cl[c].made = Null
                 /\ cl[c].handle = Null)
  /\ [][\A c \in Clients :
         (cl[c].pc = "idle" /\ cl'[c].pc = "returned") => handles' = handles]_vars

C35_Witness ==
  /\ Returned(Caller)
  /\ cl[Caller].attempts = 0
  /\ cl[Caller].composed
  /\ cl[Caller].sfrees = 1
  /\ cl[Caller].made = Null

(* C36: each deferred action runs exactly once, in the step in which its   *)
(* scope is left, by return or by exception, and not earlier. The string   *)
(* binding of connect has been freed once when connect is over; the        *)
(* session handle stays live up to the step in which the export returns    *)
(* and is freed in that step, after the return value has been built; the   *)
(* callback result stays allocated up to the step in which the dispatch    *)
(* returns and is freed in it, after its bytes have been copied; the       *)
(* output buffer is freed in the step in which the gateway returns, after  *)
(* the returned string has been built from it. No release happens twice    *)
C36_DeferredRunsAtScopeExit ==
  /\ [](\A c \in Clients : cl[c].composed => cl[c].sfrees = 1)
  /\ [](errs \cap {"handle_double_release", "double_free_foreign",
                   "double_free_transport"} = {})
  /\ [][\A c \in Clients :
         /\ (cl[c].handle # Null /\ cl[c].pc # "returned")
              => IF cl'[c].pc = "returned"
                   THEN /\ cl[c].pc = "check"
                        /\ handles[cl[c].handle] = "live"
                        /\ handles'[cl[c].handle] = "freed"
                        /\ (cl[c].status = ERROR_SUCCESS /\ ~cl'[c].injected)
                             => /\ cl'[c].ret \in Addr
                                /\ heap'[cl'[c].ret].dom = "foreign"
                   ELSE handles'[cl[c].handle] = "live"
         /\ cl[c].str_local # Null
              => IF cl'[c].pc = "reply"
                   THEN /\ heap[cl[c].str_local].dom = "foreign"
                        /\ heap'[cl[c].str_local] = FreeCell
                        /\ cl'[c].s_status = ERROR_SUCCESS
                             => heap'[cl'[c].s_out_str].data
                                  = heap[cl[c].str_local].data
                   ELSE heap'[cl[c].str_local] = heap[cl[c].str_local]
         /\ (cl[c].pc = "check" /\ cl[c].out_str # Null
                                /\ cl[c].status = ERROR_SUCCESS)
              => IF cl'[c].pc = "returned"
                   THEN /\ heap[cl[c].out_str].dom = "transport"
                        /\ heap'[cl[c].out_str].dom # "transport"
                        /\ cl'[c].ret # Null
                             => heap'[cl'[c].ret].data =
                                  c_str(string_from(heap[cl[c].out_str].data))
                   ELSE heap'[cl[c].out_str] = heap[cl[c].out_str]]_vars

C36_Witness ==
  /\ Returned(Caller)
  /\ cl[Caller].fn = "g"
  /\ cl[Caller].cbCount = 1
  /\ cl[Caller].status = ERROR_SUCCESS
  /\ cl[Caller].injected
  /\ cl[Caller].ret = Null
  /\ cl[Caller].sfrees = 1
  /\ handles[cl[Caller].made] = "freed"
  /\ \A a \in Addr : heap[a] = FreeCell
  /\ errs = {}

====
